---------------------------- MODULE Spec2Model ----------------------------
(***************************************************************************)
(* Model of src/netease_to_spotify.py: the migration of Netease playlists  *)
(* to Spotify playlists (class NeteaseToSpotify).                          *)
(*                                                                         *)
(* Strings are sequences of one-character strings, so that the regular     *)
(* expression of line 140 and the concatenations of search_for_track are   *)
(* computed character by character.  A time stamp in milliseconds is the   *)
(* record [s, ms] (whole seconds, remaining milliseconds), because the     *)
(* values (about 1.8 * 10^12) exceed the integers TLC computes with.       *)
(***************************************************************************)
EXTENDS Integers, Sequences, FiniteSets, TLC

VARIABLES
    pc,                 \* position of the program
    exitCode,           \* process exit code, -1 while running
    NEXT_YEAR,          \* module constant of line 27, fixed at load time
    tz,                 \* offset of the local time zone, in hours
    netease_playlists,  \* self.netease_playlists (config.yml)
    cur,                \* number of playlists migrate() has started
    playlist_info,      \* _migrate_single_playlist: playlist_info
    spotify_playlist_id,\* _migrate_single_playlist: spotify_playlist_id
    existing_tracks,    \* _migrate_single_playlist: existing_tracks
    descriptors,        \* the list the track loop of line 138 iterates
    pos,                \* number of descriptors the loop has processed
    userPlaylists,      \* Spotify: the user's playlists, in listing order
    playlistTracks,     \* Spotify: items of each playlist, head first
    nextId,             \* Spotify: identifier of the next created playlist
    searchResults,      \* Spotify: result of a search, per query
    trackIdsOf,         \* Netease: trackIds of each source playlist
    runs,               \* history: one record per _migrate_single_playlist
    calc                \* the call under study in the single-function specs

mainVars == <<pc, exitCode, netease_playlists, cur, playlist_info,
              spotify_playlist_id, existing_tracks, descriptors, pos,
              userPlaylists, playlistTracks, nextId, searchResults,
              trackIdsOf, runs>>
envVars == <<NEXT_YEAR, tz>>
vars == <<mainVars, envVars, calc>>

---------------------------------------------------------------------------
(* Bounds of the model *)

MaxNameLen == 5        \* longest track name of the query specification
MaxNowYear == 2026     \* latest calendar year in which the program runs
MaxTracks == 2500      \* longest list of source track identifiers

---------------------------------------------------------------------------
(* Program constants *)

UNIX_START == 1000
MS_PER_S == 1000
BATCH_CAP == 1000
PAGE_LIMIT == 100
USER_PLAYLISTS_LIMIT == 50
UNKNOWN_YEAR == -1

---------------------------------------------------------------------------
(* Helpers on sequences *)

Max(S) == CHOOSE x \in S : \A y \in S : y <= x
Min2(a, b) == IF a <= b THEN a ELSE b
Reverse(s) == [i \in 1..Len(s) |-> s[Len(s) + 1 - i]]
Range(s) == {s[i] : i \in 1..Len(s)}

RECURSIVE SeqsUpTo(_, _)
SeqsUpTo(S, n) ==
    IF n = 0 THEN {<<>>}
    ELSE LET shorter == SeqsUpTo(S, n - 1)
         IN  shorter \cup {Append(s, c) : s \in shorter, c \in S}

---------------------------------------------------------------------------
(* Time: datetime(...).timestamp() and date.fromtimestamp(...).year *)

SECONDS_PER_DAY == 86400
SECONDS_PER_HOUR == 3600

LeapsThrough(y) == (y \div 4) - (y \div 100) + (y \div 400)
DaysBeforeYear(y) == 365 * (y - 1970) + LeapsThrough(y - 1) - LeapsThrough(1969)

\* datetime(y, 1, 1).timestamp(): local midnight of 1 January, in seconds
YearStart(y, zone) == DaysBeforeYear(y) * SECONDS_PER_DAY - zone * SECONDS_PER_HOUR

\* date.fromtimestamp(seconds).year in the local time zone
YearOf(seconds, zone) ==
    LET d == (seconds + zone * SECONDS_PER_HOUR) \div SECONDS_PER_DAY
    IN  CHOOSE y \in 1969..2040 : DaysBeforeYear(y) <= d /\ d < DaysBeforeYear(y + 1)

Ms(n) == [s |-> n \div MS_PER_S, ms |-> n % MS_PER_S]
MsLeq(a, b) == a.s < b.s \/ (a.s = b.s /\ a.ms <= b.ms)
MsLess(a, b) == a.s < b.s \/ (a.s = b.s /\ a.ms < b.ms)

\* line 27: NEXT_YEAR = datetime(now.year + 1, 1, 1).timestamp() * MS_PER_S
NextYearOf(nowYear, zone) == [s |-> YearStart(nowYear + 1, zone), ms |-> 0]

---------------------------------------------------------------------------
(* Track Descriptor Extractor, lines 246-249 *)

\* line 248: "publishTime" in song and UNIX_START <= publishTime <= NEXT_YEAR
YearIsSane(song, nextYear) ==
    /\ song.hasPublishTime
    /\ MsLeq(Ms(UNIX_START), song.publishTime)
    /\ MsLeq(song.publishTime, nextYear)

ExtractYear(song, nextYear, zone) ==
    IF YearIsSane(song, nextYear)
    THEN YearOf(song.publishTime.s, zone)
    ELSE UNKNOWN_YEAR

\* lines 246-249: (song["name"], song["ar"][0]["name"], year)
Descriptor(song, nextYear, zone) ==
    [name |-> song.name, artist |-> song.ar,
     year |-> ExtractYear(song, nextYear, zone)]

---------------------------------------------------------------------------
(* Track Matcher: line 140 and search_for_track, lines 286-301 *)

\* end of the greedy match of \(.*\) that starts at the "(" at position i:
\* the last ")" that no line break separates from it; 0 when there is none
MatchEnd(s, i) ==
    LET ends == {j \in (i + 1)..Len(s) :
                    /\ s[j] = ")"
                    /\ \A k \in (i + 1)..(j - 1) : s[k] # "\n"}
    IN  IF ends = {} THEN 0 ELSE Max(ends)

\* re.sub(r'\(.*\)', '', s) from position i on
RECURSIVE ReSub(_, _)
ReSub(s, i) ==
    IF i > Len(s) THEN <<>>
    ELSE IF s[i] = "(" /\ MatchEnd(s, i) # 0
         THEN ReSub(s, MatchEnd(s, i) + 1)
         ELSE <<s[i]>> \o ReSub(s, i + 1)

\* line 140
TrimName(name) == ReSub(name, 1)

\* line 296: f"year:{year - 4}-{year + 4} "
YearClause(year) == <<"year:", ToString(year - 4), "-", ToString(year + 4), " ">>

\* lines 293-299
BuildQuery(year, name, artist) ==
    (IF year # UNKNOWN_YEAR THEN YearClause(year) ELSE <<>>)
    \o name
    \o (IF artist # <<>> THEN <<" ">> \o artist ELSE <<>>)

\* line 301: the one request search_for_track issues
SearchRequest(year, name, artist) ==
    [q |-> BuildQuery(year, name, artist), limit |-> 1, type |-> "track"]

\* lines 140-142: the request made for a descriptor
RequestFor(d) == SearchRequest(d.year, TrimName(d.name), d.artist)

---------------------------------------------------------------------------
(* Catalog Batch Fetcher, lines 232-245 *)

\* lines 235-236
ApplyLimit(track_ids, limit) ==
    IF limit > 0 THEN SubSeq(track_ids, 1, Min2(limit, Len(track_ids)))
    ELSE track_ids

\* apis.track.GetTrackDetail(ids)["songs"]: one record per identifier, in
\* the order of the request (the identifier stands for its record)
GetTrackDetail(ids) == ids

\* BatchStep with the slice taken one element late
BatchStepSkip(b) ==
    LET right == b.left + Min2(BATCH_CAP, Len(b.track_ids) - b.right)
        slice == SubSeq(b.track_ids, b.left + 2, right)
    IN  [b EXCEPT !.right = right,
                  !.requests = Append(@, slice),
                  !.songs = @ \o GetTrackDetail(slice),
                  !.left = right]

\* lines 243-245: one iteration of the while loop
BatchStep(b) ==
    LET right == b.left + Min2(BATCH_CAP, Len(b.track_ids) - b.right)
        slice == SubSeq(b.track_ids, b.left + 1, right)
    IN  [b EXCEPT !.right = right,
                  !.requests = Append(@, slice),
                  !.songs = @ \o GetTrackDetail(slice),
                  !.left = right]

\* lines 239-241
BatchStart(track_ids) ==
    [track_ids |-> track_ids, left |-> 0, right |-> 0,
     songs |-> <<>>, requests |-> <<>>]

\* line 242
BatchMore(b) == b.right < Len(b.track_ids)

RECURSIVE BatchLoop(_)
BatchLoop(b) == IF BatchMore(b) THEN BatchLoop(BatchStep(b)) ELSE b

\* lines 239-245: the songs of all batches
FetchSongs(track_ids) == BatchLoop(BatchStart(track_ids)).songs

---------------------------------------------------------------------------
(* Membership fetch: get_playlist_tracks, lines 303-333 *)

NULL_ITEM == "null"    \* an item whose track, or whose track id, is None

\* self.spotify.playlist_items(playlist_id, offset, limit, fields)
PlaylistItems(items, offset, limit) ==
    [items |-> SubSeq(items, offset + 1, Min2(offset + limit, Len(items))),
     total |-> Len(items)]

\* lines 325-327
AddPage(track_ids, page) == track_ids \cup (Range(page) \ {NULL_ITEM})

\* lines 314-331: the loop, entered with the given offset and set
RECURSIVE PageLoop(_, _, _)
PageLoop(items, offset, track_ids) ==
    LET results == PlaylistItems(items, offset, PAGE_LIMIT)
    IN  IF results.items = <<>> THEN track_ids
        ELSE IF offset + PAGE_LIMIT >= results.total
             THEN AddPage(track_ids, results.items)
             ELSE PageLoop(items, offset + PAGE_LIMIT,
                           AddPage(track_ids, results.items))

\* GetPlaylistTracks with the offset advanced before the first request
GetPlaylistTracksLate(items) == PageLoop(items, PAGE_LIMIT, {})

\* lines 310-333
GetPlaylistTracks(items) == PageLoop(items, 0, {})

---------------------------------------------------------------------------
(* Playlist resolution: lines 165-170 *)

\* self.spotify.user_playlists(user)["items"]: one response of the listing
UserPlaylistsItems(playlists) ==
    SubSeq(playlists, 1, Min2(USER_PLAYLISTS_LIMIT, Len(playlists)))

\* lines 166-170: id of the first listed playlist with that name, else 0
FindPlaylist(playlists, playlist_name) ==
    LET items == UserPlaylistsItems(playlists)
        hits == {i \in 1..Len(items) : items[i].name = playlist_name}
    IN  IF hits = {} THEN 0
        ELSE items[CHOOSE i \in hits : \A j \in hits : i <= j].id

---------------------------------------------------------------------------
(* The two services and the configuration *)

P1 == "p1"
P2 == "p2"

\* a letter outside ASCII, and unidecode of line 150, which replaces it by
\* an ASCII letter and keeps ASCII text
NON_ASCII == "E"
Unidecode(str) == [i \in 1..Len(str) |-> IF str[i] = NON_ASCII THEN "e" ELSE str[i]]

\* Netease track details, per source track identifier
PUBLISHED == [s |-> 1600000000, ms |-> 0]
Catalog ==
    <<[name |-> <<"a">>, ar |-> <<"x">>,
       hasPublishTime |-> TRUE, publishTime |-> PUBLISHED],
      [name |-> <<"a", "(", "b", ")">>, ar |-> <<"x">>,
       hasPublishTime |-> TRUE, publishTime |-> PUBLISHED],
      [name |-> <<NON_ASCII>>, ar |-> <<>>,
       hasPublishTime |-> FALSE, publishTime |-> Ms(0)]>>

\* trackIds of the source playlist P1 (P2 holds the one track 3)
TrackLists == {<<>>, <<1, 2>>, <<1, 3>>, <<3, 2>>}

\* apis.playlist.GetPlaylistInfo(playlist_id)["playlist"]
SourceInfo(p, ids) ==
    [name |-> IF p = P1 THEN <<"1">> ELSE <<"2">>,
     coverImgUrl |-> (p = P1),
     trackIds |-> ids[p]]

\* config.yml: netease_playlists, each entry with id and limit
Configs ==
    {<<[id |-> P1, limit |-> 0], [id |-> P1, limit |-> 0]>>,
     <<[id |-> P1, limit |-> 0], [id |-> P2, limit |-> 0]>>,
     <<[id |-> P2, limit |-> 1], [id |-> P1, limit |-> 1]>>}

\* config.yml: playlist_prefix, line 85
playlist_prefix == <<"p">>

\* line 125
SpotifyName(info) == playlist_prefix \o info.name

\* Spotify track identifiers a search can return, and an unrelated one
DestIds == {"d1", "d2"}
OTHER_ID == "d0"
NO_RESULT == "none"    \* search returned no item, or raised

Fill(n, x) == [i \in 1..n |-> x]

\* items of the destination playlist 1 before the program runs
InitialItems ==
    {<<>>,
     <<NULL_ITEM, "d2">>,
     Fill(PAGE_LIMIT, OTHER_ID) \o <<"d1">>,
     Fill(2 * PAGE_LIMIT - 1, OTHER_ID) \o <<"d2", "d1">>}

\* the user's playlists before the program runs: others, then the playlists
\* named like the destination of P1
Others(n) == [i \in 1..n |-> [id |-> -i, name |-> <<"o">>, cover |-> "old"]]
Named == [id |-> 1, name |-> playlist_prefix \o <<"1">>, cover |-> "old"]
InitialPlaylists ==
    {Others(n) \o tail :
        n \in {0, USER_PLAYLISTS_LIMIT - 1, USER_PLAYLISTS_LIMIT},
        tail \in {<<>>, <<Named>>}}
    \cup {<<Named, [Named EXCEPT !.id = 2]>>}

\* the states of the service before the program runs: the playlist 1 holds
\* items only when it is listed, and holds many only when listed alone
InitialService ==
    {sv \in [playlists : InitialPlaylists, items : InitialItems] :
        /\ sv.items # <<>> => \E i \in 1..Len(sv.playlists) : sv.playlists[i].id = 1
        /\ Len(sv.items) > 2 => sv.playlists = <<Named>>
        /\ Len(sv.items) = 2 => Len(sv.playlists) \in {1, USER_PLAYLISTS_LIMIT + 1}}

\* the queries of the catalog's tracks
CatalogQueries(nextYear, zone) ==
    {RequestFor(Descriptor(Catalog[t], nextYear, zone)).q : t \in 1..Len(Catalog)}

\* what the search returns for each query: every table in which the query
\* of track 1 has the result "d1" or none
SearchTables(nextYear, zone) ==
    {f \in [CatalogQueries(nextYear, zone) -> DestIds \cup {NO_RESULT}] :
        f[RequestFor(Descriptor(Catalog[1], nextYear, zone)).q] # "d2"}

---------------------------------------------------------------------------
(* History of the runs of _migrate_single_playlist *)

NewRun(entry) ==
    [src |-> entry.id, limit |-> entry.limit, dest |-> 0,
     nameExisted |-> FALSE, createCalled |-> FALSE, created |-> FALSE,
     coverFailed |-> FALSE, failedAt |-> "none", outcome |-> "running",
     existing |-> {}, before |-> <<>>, reachedLoop |-> FALSE,
     descs |-> <<>>, requests |-> <<>>, addCalls |-> <<>>,
     warnings |-> <<>>, log |-> <<>>]

Last(s) == s[Len(s)]
SetLast(s, r) == [s EXCEPT ![Len(s)] = r]

\* track identifiers of the calls to playlist_add_items that succeeded
Adds(r) ==
    LET ok == SelectSeq(r.addCalls, LAMBDA c : c.ok)
    IN  [i \in 1..Len(ok) |-> ok[i].track]

---------------------------------------------------------------------------
(* Initial states *)

NO_INFO == [name |-> <<>>, coverImgUrl |-> FALSE, trackIds |-> <<>>]

IdleCalc == calc = [op |-> "none"]

InitEnv(nowYears, zones) ==
    \E y \in nowYears, z \in zones :
        /\ tz = z
        /\ NEXT_YEAR = NextYearOf(y, z)

\* the state after the module is loaded and config.yml is read
Init ==
    /\ InitEnv({MaxNowYear}, {0})
    /\ IdleCalc
    /\ pc = "init"
    /\ exitCode = -1
    /\ netease_playlists \in Configs
    /\ cur = 0
    /\ playlist_info = NO_INFO
    /\ spotify_playlist_id = 0
    /\ existing_tracks = {}
    /\ descriptors = <<>>
    /\ pos = 0
    /\ \E sv \in InitialService :
          /\ userPlaylists = sv.playlists
          /\ playlistTracks = <<sv.items, <<>> >>
    /\ nextId = 3
    /\ searchResults \in SearchTables(NEXT_YEAR, tz)
    /\ \E ids \in TrackLists : trackIdsOf = [p \in {P1, P2} |-> IF p = P1 THEN ids ELSE <<3>>]
    /\ runs = <<>>

\* the main program is not running (single-function specifications)
MainIdle ==
    /\ pc = "idle"
    /\ exitCode = -1
    /\ netease_playlists = <<>>
    /\ cur = 0
    /\ playlist_info = NO_INFO
    /\ spotify_playlist_id = 0
    /\ existing_tracks = {}
    /\ descriptors = <<>>
    /\ pos = 0
    /\ userPlaylists = <<>>
    /\ playlistTracks = <<>>
    /\ nextId = 1
    /\ searchResults = <<>>
    /\ trackIdsOf = <<>>
    /\ runs = <<>>

---------------------------------------------------------------------------
(* __init__, lines 30-85, and migrate, lines 97-109 *)

\* lines 35-80: authorization succeeds, or sys.exit(1)
Authenticate ==
    /\ pc = "init"
    /\ \E ok \in BOOLEAN :
          IF ok THEN pc' = "migrate" /\ exitCode' = exitCode
          ELSE pc' = "exit" /\ exitCode' = 1
    /\ UNCHANGED <<netease_playlists, cur, playlist_info, spotify_playlist_id,
                   existing_tracks, descriptors, pos, userPlaylists,
                   playlistTracks, nextId, searchResults, trackIdsOf, runs,
                   envVars, calc>>

\* lines 105-109: the next configured playlist is handed to
\* _migrate_single_playlist
MigrateNext ==
    /\ pc = "migrate"
    /\ cur < Len(netease_playlists)
    /\ cur' = cur + 1
    /\ runs' = Append(runs, NewRun(netease_playlists[cur + 1]))
    /\ pc' = "info"
    /\ UNCHANGED <<exitCode, netease_playlists, playlist_info,
                   spotify_playlist_id, existing_tracks, descriptors, pos,
                   userPlaylists, playlistTracks, nextId, searchResults,
                   trackIdsOf, envVars, calc>>

\* line 105: the loop is exhausted, migrate returns and the process ends
MigrateReturn ==
    /\ pc = "migrate"
    /\ cur = Len(netease_playlists)
    /\ pc' = "exit"
    /\ exitCode' = 0
    /\ UNCHANGED <<netease_playlists, cur, playlist_info, spotify_playlist_id,
                   existing_tracks, descriptors, pos, userPlaylists,
                   playlistTracks, nextId, searchResults, trackIdsOf, runs,
                   envVars, calc>>

---------------------------------------------------------------------------
(* _migrate_single_playlist, lines 119-152 *)

\* PcAfterFailure without the except clause of line 151: the exception
\* leaves migrate
PcAfterFailureUncaught == "exit"

\* lines 151-152: where control goes when the except clause has logged
PcAfterFailure == "migrate"

\* the run record of a playlist abandoned at the given stage
Failed(r, stage) == [r EXCEPT !.failedAt = stage, !.outcome = "failed"]

\* lines 121-125
GetPlaylistInfo ==
    /\ pc = "info"
    /\ \E ok \in BOOLEAN :
          IF ok
          THEN /\ playlist_info' = SourceInfo(Last(runs).src, trackIdsOf)
               /\ pc' = "resolve"
               /\ runs' = runs
          ELSE /\ playlist_info' = playlist_info
               /\ pc' = PcAfterFailure
               /\ runs' = SetLast(runs, Failed(Last(runs), "info"))
    /\ UNCHANGED <<exitCode, netease_playlists, cur, spotify_playlist_id,
                   existing_tracks, descriptors, pos, userPlaylists,
                   playlistTracks, nextId, searchResults, trackIdsOf,
                   envVars, calc>>

---------------------------------------------------------------------------
(* get_or_create_playlist, lines 154-189, with create_playlist, lines      *)
(* 191-219, get_base64_from_url and get_base64_from_image                  *)

\* CoverFailureRaises with line 183 re-raising as line 214 does
CoverFailureRaisesAlways(created) == TRUE

\* whether a failure of the cover step leaves the method as an exception:
\* lines 212-214 re-raise for a created playlist, lines 182-183 only log for
\* a playlist that was found
CoverFailureRaises(created) == created

\* the image handed to playlist_upload_cover_image: lines 204-209 for a
\* created playlist, lines 175-180 for a found one.  fromUrl is the outcome
\* of get_base64_from_url ("ok", or "none" for the None of lines 269, 273),
\* localOk whether get_base64_from_image could read the file
CoverImage(created, hasUrl, fromUrl, localOk) ==
    IF hasUrl /\ fromUrl = "ok" THEN "url"
    ELSE IF created THEN (IF localOk THEN "default" ELSE "raise")
    ELSE "skip"

\* the outcome of the cover step: the image uploaded, "skip" when nothing
\* was to upload, "failed" when reading the image or the upload raised
CoverStep(created, hasUrl, fromUrl, localOk, uploadOk) ==
    LET image == CoverImage(created, hasUrl, fromUrl, localOk)
    IN  IF image = "skip" THEN "skip"
        ELSE IF image = "raise" \/ ~uploadOk THEN "failed"
        ELSE image

SetCover(playlists, id, image) ==
    [i \in 1..Len(playlists) |->
        IF playlists[i].id = id THEN [playlists[i] EXCEPT !.cover = image]
        ELSE playlists[i]]

\* self.spotify.user_playlist_create: the service lists the new playlist
\* first
UserPlaylistCreate(playlists, id, name) ==
    <<[id |-> id, name |-> name, cover |-> "none"]>> \o playlists

\* The whole call of line 128.  o holds the outcomes of the calls it makes
\* (listOk, createOk, fromUrl, localOk, uploadOk); the field raised of the
\* result tells whether it raised.
ResolveResult(playlists, tracks, nid, name, hasUrl, r, o) ==
    LET found == FindPlaylist(playlists, name)
        r0 == [r EXCEPT !.nameExisted =
                  \E i \in 1..Len(playlists) : playlists[i].name = name]
        same == [playlists |-> playlists, tracks |-> tracks, nid |-> nid]
    IN  IF ~o.listOk
        THEN [raised |-> TRUE, run |-> r0] @@ same
        ELSE IF found = 0
        THEN IF ~o.createOk
             THEN [raised |-> TRUE, run |-> [r0 EXCEPT !.createCalled = TRUE]]
                  @@ same
             ELSE LET cover == CoverStep(TRUE, hasUrl, o.fromUrl, o.localOk, o.uploadOk)
                      listed == UserPlaylistCreate(playlists, nid, name)
                      r1 == [r0 EXCEPT !.createCalled = TRUE, !.created = TRUE,
                                       !.dest = nid,
                                       !.coverFailed = (cover = "failed")]
                  IN  [raised |-> cover = "failed" /\ CoverFailureRaises(TRUE),
                       run |-> r1,
                       playlists |-> IF cover = "failed" THEN listed
                                     ELSE SetCover(listed, nid, cover),
                       tracks |-> Append(tracks, <<>>),
                       nid |-> nid + 1]
        ELSE LET cover == CoverStep(FALSE, hasUrl, o.fromUrl, o.localOk, o.uploadOk)
                 r1 == [r0 EXCEPT !.dest = found,
                                  !.coverFailed = (cover = "failed")]
             IN  [raised |-> cover = "failed" /\ CoverFailureRaises(FALSE),
                  run |-> r1,
                  playlists |-> IF cover \in {"failed", "skip"} THEN playlists
                                ELSE SetCover(playlists, found, cover),
                  tracks |-> tracks,
                  nid |-> nid]

\* lines 125-128
GetOrCreatePlaylist ==
    /\ pc = "resolve"
    /\ \E listOk \in BOOLEAN, createOk \in BOOLEAN, fromUrl \in {"ok", "none"},
          localOk \in BOOLEAN, uploadOk \in BOOLEAN :
          LET res == ResolveResult(userPlaylists, playlistTracks, nextId,
                                   SpotifyName(playlist_info),
                                   playlist_info.coverImgUrl, Last(runs),
                                   [listOk |-> listOk, createOk |-> createOk,
                                    fromUrl |-> fromUrl, localOk |-> localOk,
                                    uploadOk |-> uploadOk])
          IN  /\ userPlaylists' = res.playlists
              /\ playlistTracks' = res.tracks
              /\ nextId' = res.nid
              /\ IF res.raised
                 THEN /\ runs' = SetLast(runs, Failed(res.run, "resolve"))
                      /\ pc' = PcAfterFailure
                      /\ spotify_playlist_id' = spotify_playlist_id
                 ELSE /\ runs' = SetLast(runs, res.run)
                      /\ pc' = "members"
                      /\ spotify_playlist_id' = res.run.dest
    /\ UNCHANGED <<exitCode, netease_playlists, cur, playlist_info,
                   existing_tracks, descriptors, pos, searchResults,
                   trackIdsOf, envVars, calc>>

---------------------------------------------------------------------------
(* _migrate_single_playlist, continued: lines 130-150 *)

\* lines 130-132
FetchMembership ==
    /\ pc = "members"
    /\ \E ok \in BOOLEAN :
          IF ok
          THEN LET items == playlistTracks[spotify_playlist_id]
               IN  /\ existing_tracks' = GetPlaylistTracks(items)
                   /\ runs' = SetLast(runs,
                         [Last(runs) EXCEPT !.existing = GetPlaylistTracks(items),
                                            !.before = items])
                   /\ pc' = "fetch"
          ELSE /\ existing_tracks' = existing_tracks
               /\ runs' = SetLast(runs, Failed(Last(runs), "members"))
               /\ pc' = PcAfterFailure
    /\ UNCHANGED <<exitCode, netease_playlists, cur, playlist_info,
                   spotify_playlist_id, descriptors, pos, userPlaylists,
                   playlistTracks, nextId, searchResults, trackIdsOf,
                   envVars, calc>>

\* ResultOrder without the reversal
ResultOrderKept(result) == result

\* line 251: return result[::-1]
ResultOrder(result) == Reverse(result)

\* get_netease_playlist_tracks_name_and_artist, lines 231-251, when no
\* request fails; details maps a song of GetTrackDetail to its record
NeteaseTracks(track_ids, limit, details, nextYear, zone) ==
    LET songs == FetchSongs(ApplyLimit(track_ids, limit))
        result == [i \in 1..Len(songs) |->
                      Descriptor(details[songs[i]], nextYear, zone)]
    IN  ResultOrder(result)

\* lines 134-137
FetchSourceTracks ==
    /\ pc = "fetch"
    /\ \E ok \in BOOLEAN :
          IF ok
          THEN LET ds == NeteaseTracks(playlist_info.trackIds,
                                       netease_playlists[cur].limit,
                                       Catalog, NEXT_YEAR, tz)
               IN  /\ descriptors' = ds
                   /\ pos' = 0
                   /\ runs' = SetLast(runs,
                         [Last(runs) EXCEPT !.descs = ds, !.reachedLoop = TRUE])
                   /\ pc' = "tracks"
          ELSE /\ descriptors' = descriptors
               /\ pos' = pos
               /\ runs' = SetLast(runs, Failed(Last(runs), "fetch"))
               /\ pc' = PcAfterFailure
    /\ UNCHANGED <<exitCode, netease_playlists, cur, playlist_info,
                   spotify_playlist_id, existing_tracks, userPlaylists,
                   playlistTracks, nextId, searchResults, trackIdsOf,
                   envVars, calc>>

\* line 144
ShouldAdd(track_id, existing) == track_id \notin existing

\* self.spotify.playlist_add_items(playlist_id, [track_id], position)
PlaylistAddItems(items, track_id, position) ==
    SubSeq(items, 1, position) \o <<track_id>>
    \o SubSeq(items, position + 1, Len(items))

\* line 146: the position argument
INSERT_POSITION == 0

\* AfterTrack with a failure ending the loop
AfterTrackBreak(p, n, raised) == IF raised THEN n ELSE p + 1

\* lines 138, 149-150: the number of descriptors done once the body has run
\* for descriptor pos + 1, whether or not the body raised
AfterTrack(p, n, raised) == p + 1

\* lines 138-150: one iteration of the track loop
ProcessTrack ==
    /\ pc = "tracks"
    /\ pos < Len(descriptors)
    /\ LET d == descriptors[pos + 1]
           request == RequestFor(d)
           track_id == searchResults[request.q]
           r == [Last(runs) EXCEPT !.requests = Append(@, request)]
           entry == [name |-> d.name, artist |-> d.artist, result |-> track_id]
           warned(called) ==
               [r EXCEPT !.warnings = Append(@, <<Unidecode(d.name),
                                                  Unidecode(d.artist)>>),
                         !.log = Append(@, entry @@ [action |-> "warned"]),
                         !.addCalls = IF called
                                      THEN Append(@, [track |-> track_id,
                                                      position |-> INSERT_POSITION,
                                                      ok |-> FALSE])
                                      ELSE @]
       IN  IF track_id = NO_RESULT
           THEN /\ runs' = SetLast(runs, warned(FALSE))
                /\ playlistTracks' = playlistTracks
                /\ pos' = AfterTrack(pos, Len(descriptors), TRUE)
           ELSE IF ShouldAdd(track_id, existing_tracks)
           THEN \E ok \in BOOLEAN :
                   IF ok
                   THEN /\ playlistTracks' =
                              [playlistTracks EXCEPT ![spotify_playlist_id] =
                                  PlaylistAddItems(@, track_id, INSERT_POSITION)]
                        /\ runs' = SetLast(runs,
                              [r EXCEPT !.addCalls =
                                            Append(@, [track |-> track_id,
                                                       position |-> INSERT_POSITION,
                                                       ok |-> TRUE]),
                                        !.log = Append(@, entry @@ [action |-> "added"])])
                        /\ pos' = AfterTrack(pos, Len(descriptors), FALSE)
                   ELSE /\ playlistTracks' = playlistTracks
                        /\ runs' = SetLast(runs, warned(TRUE))
                        /\ pos' = AfterTrack(pos, Len(descriptors), TRUE)
           ELSE /\ playlistTracks' = playlistTracks
                /\ runs' = SetLast(runs,
                      [r EXCEPT !.log = Append(@, entry @@ [action |-> "skipped"])])
                /\ pos' = AfterTrack(pos, Len(descriptors), FALSE)
    /\ UNCHANGED <<pc, exitCode, netease_playlists, cur, playlist_info,
                   spotify_playlist_id, existing_tracks, descriptors,
                   userPlaylists, nextId, searchResults, trackIdsOf,
                   envVars, calc>>

\* line 138: the loop is exhausted and _migrate_single_playlist returns
FinishPlaylist ==
    /\ pc = "tracks"
    /\ pos >= Len(descriptors)
    /\ runs' = SetLast(runs, [Last(runs) EXCEPT !.outcome = "done"])
    /\ pc' = "migrate"
    /\ UNCHANGED <<exitCode, netease_playlists, cur, playlist_info,
                   spotify_playlist_id, existing_tracks, descriptors, pos,
                   userPlaylists, playlistTracks, nextId, searchResults,
                   trackIdsOf, envVars, calc>>

Next ==
    \/ Authenticate
    \/ MigrateNext
    \/ MigrateReturn
    \/ GetPlaylistInfo
    \/ GetOrCreatePlaylist
    \/ FetchMembership
    \/ FetchSourceTracks
    \/ ProcessTrack
    \/ FinishPlaylist

Spec == Init /\ [][Next]_vars

---------------------------------------------------------------------------
(* Specification of one call of the track matcher (lines 140-142, 286-301) *)

NameChars == {"a", " ", "(", ")", "\n"}
QueryYears == {UNKNOWN_YEAR, 2020}
QueryArtists == {<<>>, <<"x">>}

InitQuery ==
    /\ InitEnv({MaxNowYear}, {0})
    /\ MainIdle
    /\ \E name \in SeqsUpTo(NameChars, MaxNameLen),
          artist \in QueryArtists, year \in QueryYears :
          calc = [op |-> "search",
                  d |-> [name |-> name, artist |-> artist, year |-> year],
                  requests |-> <<>>, returned |-> FALSE]

\* lines 140-142 for the descriptor calc.d
SearchForTrack ==
    /\ calc.op = "search"
    /\ ~calc.returned
    /\ calc' = [calc EXCEPT !.requests = Append(@, RequestFor(calc.d)),
                            !.returned = TRUE]
    /\ UNCHANGED <<mainVars, envVars>>

NextQuery == SearchForTrack

SpecQuery == InitQuery /\ [][NextQuery]_vars

---------------------------------------------------------------------------
(* Specification of the extraction of one record (lines 246-249) and of    *)
(* the query built from it                                                 *)

NowYears == 2025..MaxNowYear
Zones == {-5, 0, 8}

\* publish times: around the epoch, and around the start of each year
PublishTimes(zone) ==
    {[s |-> -1, ms |-> 999], Ms(0), Ms(UNIX_START - 1), Ms(UNIX_START),
     Ms(UNIX_START + 1), PUBLISHED}
    \cup {[s |-> YearStart(y, zone) + ds, ms |-> m] :
             y \in 2024..(MaxNowYear + 2), ds \in {-1, 0, 1}, m \in {0, 1}}

InitYear ==
    /\ InitEnv(NowYears, Zones)
    /\ MainIdle
    /\ \E has \in BOOLEAN, t \in PublishTimes(tz) :
          /\ ~has => t = Ms(0)
          /\ calc = [op |-> "extract",
                     song |-> [name |-> <<"a">>, ar |-> <<"x">>,
                               hasPublishTime |-> has, publishTime |-> t],
                     requests |-> <<>>, returned |-> FALSE]

\* lines 246-249 for the record calc.song, then lines 140-142
ExtractAndSearch ==
    /\ calc.op = "extract"
    /\ ~calc.returned
    /\ LET d == Descriptor(calc.song, NEXT_YEAR, tz)
       IN  calc' = [calc EXCEPT !.requests = Append(@, RequestFor(d)),
                                !.returned = TRUE] @@ [d |-> d]
    /\ UNCHANGED <<mainVars, envVars>>

NextExtract == ExtractAndSearch

SpecYear == InitYear /\ [][NextExtract]_vars

---------------------------------------------------------------------------
(* Specification of the batch loop (lines 232-254)                         *)

\* lengths of the source playlist: around the multiples of the cap
TrackCounts ==
    {n \in 0..MaxTracks :
        (n % BATCH_CAP) \in {0, 1, 2, 3, 499, 500, 501,
                             BATCH_CAP - 2, BATCH_CAP - 1}}
BatchLimits == {0, 1, BATCH_CAP - 1, BATCH_CAP + 1, 2 * BATCH_CAP}

InitBatch ==
    /\ InitEnv({MaxNowYear}, {0})
    /\ MainIdle
    /\ \E n \in TrackCounts, limit \in BatchLimits :
          calc = [op |-> "batch", status |-> "loop", result |-> <<>>,
                  b |-> BatchStart(ApplyLimit([i \in 1..n |-> i], limit))]

\* lines 242-245: one iteration whose request succeeds
BatchIterate ==
    /\ calc.op = "batch"
    /\ calc.status = "loop"
    /\ BatchMore(calc.b)
    /\ calc' = [calc EXCEPT !.b = BatchStep(@)]
    /\ UNCHANGED <<mainVars, envVars>>

\* lines 243-244, 252-254: the request raises, the method logs and re-raises
BatchRaise ==
    /\ calc.op = "batch"
    /\ calc.status = "loop"
    /\ BatchMore(calc.b)
    /\ calc' = [calc EXCEPT !.b.requests = BatchStep(calc.b).requests,
                            !.status = "raised"]
    /\ UNCHANGED <<mainVars, envVars>>

\* lines 242, 246-251: the loop ends and the reversed result is returned
BatchReturn ==
    /\ calc.op = "batch"
    /\ calc.status = "loop"
    /\ ~BatchMore(calc.b)
    /\ calc' = [calc EXCEPT !.status = "returned",
                            !.result = ResultOrder(calc.b.songs)]
    /\ UNCHANGED <<mainVars, envVars>>

NextBatch == BatchIterate \/ BatchRaise \/ BatchReturn

SpecBatch == InitBatch /\ [][NextBatch]_vars

\* the loop keeps running until the method returns or raises
FairSpecBatch == SpecBatch /\ WF_vars(BatchIterate \/ BatchReturn)

---------------------------------------------------------------------------
(* Properties of the batch loop *)

RECURSIVE Flatten(_)
Flatten(ss) == IF ss = <<>> THEN <<>> ELSE Head(ss) \o Flatten(Tail(ss))

CeilDiv(n, c) == (n + c - 1) \div c

\* the requests made so far are slices of at most BATCH_CAP identifiers,
\* every one but the last of exactly BATCH_CAP, and together they are a
\* prefix of the input; the songs are the records of the requests answered
BatchPartition ==
    calc.op = "batch" =>
        LET b == calc.b
            n == Len(b.track_ids)
            k == Len(b.requests)
            asked == Flatten(b.requests)
        IN  /\ \A i \in 1..k : Len(b.requests[i]) \in 1..BATCH_CAP
            /\ \A i \in 1..(k - 1) : Len(b.requests[i]) = BATCH_CAP
            /\ Len(asked) <= n
            /\ asked = SubSeq(b.track_ids, 1, Len(asked))
            /\ calc.status # "raised" => b.songs = asked
            /\ calc.status = "returned" =>
                  /\ k = CeilDiv(n, BATCH_CAP)
                  /\ asked = b.track_ids
                  /\ b.songs = b.track_ids
                  /\ calc.result = Reverse(b.track_ids)

\* C8: the fetch loop issues ceil(N / 1000) requests of at most 1000
\* identifiers each (1000, ..., 1000, remainder; none when N = 0), the
\* slices are contiguous, do not overlap and cover the input once in order,
\* the concatenated responses hold one record per identifier in the input's
\* order, and the loop terminates for every N.
C8_BatchPartition == [] BatchPartition /\ <>(calc.status # "loop")

\* 2500 identifiers were fetched in the three batches 1000 / 1000 / 500
C8_Witness ==
    /\ calc.op = "batch"
    /\ calc.status = "returned"
    /\ Len(calc.b.track_ids) = 2500
    /\ Len(calc.b.requests) = 3
    /\ Len(calc.b.requests[1]) = 1000
    /\ Len(calc.b.requests[2]) = 1000
    /\ Len(calc.b.requests[3]) = 500
    /\ calc.b.songs = calc.b.track_ids

---------------------------------------------------------------------------
(* Properties of the year filter *)

HasYearClause(q) == Len(q) >= 1 /\ q[1] = "year:"

\* the publish time lies in the half-open interval [1000, NEXT_YEAR)
InHalfOpenInterval(song) ==
    /\ song.hasPublishTime
    /\ MsLeq(Ms(UNIX_START), song.publishTime)
    /\ MsLess(song.publishTime, NEXT_YEAR)

\* C9: the extracted year is a known calendar year if and only if the
\* record carries a publish time t with 1000 <= t < NEXT_YEAR; for every
\* other record (no publish time, t < 1000, t >= NEXT_YEAR, t = NEXT_YEAR
\* included) the year is the unknown sentinel and the query built for the
\* track has no year clause.
C9_HalfOpenInterval ==
    (calc.op = "extract" /\ calc.returned) =>
        /\ (calc.d.year # UNKNOWN_YEAR) <=> InHalfOpenInterval(calc.song)
        /\ ~InHalfOpenInterval(calc.song) =>
              ~HasYearClause(calc.requests[1].q)

---------------------------------------------------------------------------
(* Properties of the query *)

\* the characters of s outside parentheses, for s whose parentheses are
\* balanced and not nested; depth is 1 inside a group
RECURSIVE Outside(_, _, _)
Outside(s, i, depth) ==
    IF i > Len(s) THEN <<>>
    ELSE IF s[i] = "(" THEN Outside(s, i + 1, 1)
    ELSE IF s[i] = ")" THEN Outside(s, i + 1, 0)
    ELSE IF depth = 0 THEN <<s[i]>> \o Outside(s, i + 1, depth)
    ELSE Outside(s, i + 1, depth)

\* parentheses balanced and not nested, no line break
RECURSIVE SimpleGroups(_, _, _)
SimpleGroups(s, i, depth) ==
    IF i > Len(s) THEN depth = 0
    ELSE IF s[i] = "\n" THEN FALSE
    ELSE IF s[i] = "(" THEN depth = 0 /\ SimpleGroups(s, i + 1, 1)
    ELSE IF s[i] = ")" THEN depth = 1 /\ SimpleGroups(s, i + 1, 0)
    ELSE SimpleGroups(s, i + 1, depth)

\* C10: for every descriptor exactly one search request with result limit 1
\* is issued, and its query is the year clause (only when the year is
\* known), then the name with every parenthesized substring removed and all
\* text outside parentheses kept, also when the name holds several groups,
\* then a space and the artist (only when the artist is present).
C10_QueryConstruction ==
    (calc.op = "search" /\ calc.returned
       /\ SimpleGroups(calc.d.name, 1, 0)) =>
        /\ Len(calc.requests) = 1
        /\ calc.requests[1].limit = 1
        /\ calc.requests[1].q =
              (IF calc.d.year # UNKNOWN_YEAR THEN YearClause(calc.d.year)
               ELSE <<>>)
              \o Outside(calc.d.name, 1, 0)
              \o (IF calc.d.artist # <<>> THEN <<" ">> \o calc.d.artist
                  ELSE <<>>)

---------------------------------------------------------------------------
(* Properties of the migration *)

RunIds == 1..Len(runs)

AllAddsOk(r) == \A i \in 1..Len(r.addCalls) : r.addCalls[i].ok

\* the search result for a source track
MatchOf(t) == searchResults[RequestFor(Descriptor(Catalog[t], NEXT_YEAR, tz)).q]

\* the source track identifiers a run works on
SourceTracks(r) == ApplyLimit(trackIdsOf[r.src], r.limit)

\* C1: when _migrate_single_playlist is run twice in a row for the same
\* source playlist, the source unchanged and the search returning the same
\* result for the same query, and the first run went through with every
\* insertion it made accepted, then the second run makes no call of
\* playlist_add_items: every identifier it matches is in the set returned
\* by get_playlist_tracks, whatever the size of the destination playlist.
C1_Idempotence ==
    \A i \in RunIds \ {Len(runs)} :
        LET first == runs[i]
            second == runs[i + 1]
        IN  (/\ first.src = second.src
             /\ first.limit = second.limit
             /\ first.outcome = "done"
             /\ AllAddsOk(first))
            => /\ second.addCalls = <<>>
               /\ \A k \in 1..Len(second.log) :
                     second.log[k].result # NO_RESULT
                        => second.log[k].result \in second.existing

\* a second run over a destination playlist of more than one page matched
\* the track the first run had inserted and one the playlist held before
C1_Witness ==
    /\ Len(runs) = 2
    /\ runs[1].src = runs[2].src
    /\ runs[1].outcome = "done"
    /\ AllAddsOk(runs[1])
    /\ Len(Adds(runs[1])) = 1
    /\ runs[2].outcome = "done"
    /\ runs[2].dest = runs[1].dest
    /\ Len(runs[2].before) > PAGE_LIMIT
    /\ Len(runs[2].log) = 2
    /\ \A k \in 1..2 : runs[2].log[k].action = "skipped"

NoRepeat(seq) == \A i \in 1..Len(seq), j \in 1..Len(seq) : i # j => seq[i] # seq[j]

\* C2: within one run of _migrate_single_playlist every destination track
\* identifier is inserted at most once, also when two source descriptors
\* match the same identifier that was not in the playlist when the run
\* began; a playlist without duplicates before the run has none after it.
C2_InsertedAtMostOnce ==
    \A i \in RunIds :
        /\ NoRepeat(Adds(runs[i]))
        /\ (i = Len(runs) /\ runs[i].reachedLoop /\ NoRepeat(runs[i].before))
              => NoRepeat(playlistTracks[runs[i].dest])

\* the case of the ordering claims: the last run created its playlist, has
\* finished, and worked on two source tracks matched to distinct identifiers
\* that were all inserted
TwoTrackCase(r) ==
    /\ r.created
    /\ r.outcome = "done"
    /\ Len(SourceTracks(r)) = 2
    /\ MatchOf(SourceTracks(r)[1]) # NO_RESULT
    /\ MatchOf(SourceTracks(r)[2]) # NO_RESULT
    /\ MatchOf(SourceTracks(r)[1]) # MatchOf(SourceTracks(r)[2])
    /\ AllAddsOk(r)

\* C3, as stated: for the source track list [A, B] and an absent destination
\* playlist the run inserts A first and then B at position 0, and the
\* destination playlist ends as [B, A].
C3_OrderAsStated ==
    (runs # <<>> /\ TwoTrackCase(Last(runs))) =>
        LET r == Last(runs)
            A == MatchOf(SourceTracks(r)[1])
            B == MatchOf(SourceTracks(r)[2])
        IN  /\ Adds(r) = <<A, B>>
            /\ playlistTracks[r.dest] = <<B, A>>

\* C3, amended: for the source track list [A, B] and an absent destination
\* playlist the run inserts B first and then A at position 0, and the
\* destination playlist ends as [A, B]; in general every insertion is made
\* at position 0, so the playlist is the inserted identifiers, latest
\* first, followed by the items it held before.
C3_OrderPreserved ==
    runs # <<>> =>
        LET r == Last(runs)
        IN  /\ TwoTrackCase(r) =>
                  LET A == MatchOf(SourceTracks(r)[1])
                      B == MatchOf(SourceTracks(r)[2])
                  IN  /\ Adds(r) = <<B, A>>
                      /\ playlistTracks[r.dest] = <<A, B>>
            /\ r.reachedLoop =>
                  /\ playlistTracks[r.dest] = Reverse(Adds(r)) \o r.before
                  /\ \A k \in 1..Len(r.addCalls) : r.addCalls[k].position = 0

\* the source list [1, 3] was migrated to a created playlist
C3_Witness ==
    /\ runs # <<>>
    /\ TwoTrackCase(Last(runs))
    /\ SourceTracks(Last(runs)) = <<1, 3>>
    /\ Adds(Last(runs)) = <<MatchOf(3), MatchOf(1)>>
    /\ playlistTracks[Last(runs).dest] = <<MatchOf(1), MatchOf(3)>>

\* the entries of a run's log with the given action
Entries(r, action) == SelectSeq(r.log, LAMBDA e : e.action = action)

\* C4: a descriptor whose search returns nothing, or whose match or insert
\* raises, gets no insertion and a warning with its name and artist (in
\* ASCII transliteration); every
\* later descriptor is still matched and, when matched and not in the
\* ExistingTrackSet, inserted; the run of the playlist reaches its end.
C4_TrackFailureContained ==
    \A i \in RunIds :
        LET r == runs[i]
            added == Entries(r, "added")
            warned == Entries(r, "warned")
        IN  r.reachedLoop =>
            /\ r.outcome # "failed"
            /\ Len(r.log) <= Len(r.descs)
            /\ Len(r.requests) = Len(r.log)
            /\ r.outcome = "done" => Len(r.log) = Len(r.descs)
            /\ (i = Len(runs) /\ r.outcome = "running")
                  => (pc = "tracks" /\ pos = Len(r.log))
            /\ \A k \in 1..Len(r.log) :
                  LET e == r.log[k]
                      d == r.descs[k]
                  IN  /\ e.name = d.name /\ e.artist = d.artist
                      /\ r.requests[k] = RequestFor(d)
                      /\ e.result = searchResults[r.requests[k].q]
                      /\ e.result = NO_RESULT => e.action = "warned"
                      /\ e.action = "skipped" <=>
                            (e.result # NO_RESULT /\ e.result \in r.existing)
            /\ Adds(r) = [k \in 1..Len(added) |-> added[k].result]
            /\ r.warnings = [k \in 1..Len(warned) |->
                                <<Unidecode(warned[k].name),
                                  Unidecode(warned[k].artist)>>]
            /\ Len(r.addCalls) = Len(added)
                  + Len(SelectSeq(warned, LAMBDA e : e.result # NO_RESULT))
            /\ i = Len(runs) =>
                  playlistTracks[r.dest] = Reverse(Adds(r)) \o r.before

\* a finished run whose first descriptor found nothing and whose second was
\* inserted
C4_Witness ==
    /\ runs # <<>>
    /\ Last(runs).outcome = "done"
    /\ Len(Last(runs).log) = 2
    /\ Last(runs).log[1].action = "warned"
    /\ Last(runs).log[1].result = NO_RESULT
    /\ Last(runs).log[2].action = "added"
    /\ Len(Last(runs).warnings) = 1

\* C5: once authentication has succeeded migrate attempts every configured
\* playlist in configuration order; a failure while migrating one playlist
\* abandons only that playlist, the later ones are still attempted and the
\* process ends with exit code 0; exit code 1 comes from a failed
\* authentication only.
C5_PlaylistFailureContained ==
    /\ pc # "exit" => exitCode = -1
    /\ pc = "exit" =>
          /\ exitCode \in {0, 1}
          /\ exitCode = 1 => (cur = 0 /\ runs = <<>>)
          /\ exitCode = 0 => Len(runs) = Len(netease_playlists)
    /\ pc \notin {"init", "exit"} => Len(runs) = cur
    /\ \A i \in RunIds :
          /\ runs[i].src = netease_playlists[i].id
          /\ runs[i].limit = netease_playlists[i].limit
          /\ (i < Len(runs) \/ pc \in {"migrate", "exit"})
                => runs[i].outcome \in {"done", "failed"}
          /\ runs[i].outcome = "failed" =>
                /\ runs[i].failedAt \in {"info", "resolve", "members", "fetch"}
                /\ runs[i].requests = <<>>
                /\ runs[i].addCalls = <<>>

\* the first playlist failed, the second was migrated, the exit code is 0
C5_Witness ==
    /\ pc = "exit"
    /\ exitCode = 0
    /\ Len(runs) = 2
    /\ runs[1].outcome = "failed"
    /\ runs[2].outcome = "done"
    /\ Adds(runs[2]) # <<>>

\* C6: get_or_create_playlist looks at all of the user's playlists, every
\* page, and whenever one of them has exactly the target name it returns
\* the first such playlist and creates none; a playlist is created if and
\* only if no playlist of the user has that name.
C6_CreatesOnlyWhenAbsent ==
    \A i \in RunIds : runs[i].createCalled => ~runs[i].nameExisted

\* C7: a failure of the cover upload aborts the migration of a playlist
\* created in this run, with no track inserted; for a playlist that already
\* existed it is only logged, get_or_create_playlist returns the identifier
\* and the membership fetch and the reconciliation go on.
C7_CoverFailure ==
    \A i \in RunIds :
        LET r == runs[i]
        IN  /\ (r.coverFailed /\ r.created) =>
                  /\ r.outcome = "failed"
                  /\ r.failedAt = "resolve"
                  /\ r.requests = <<>>
                  /\ r.addCalls = <<>>
                  /\ i = Len(runs) => playlistTracks[r.dest] = <<>>
            /\ (r.coverFailed /\ ~r.created) =>
                  /\ r.dest # 0
                  /\ r.failedAt # "resolve"
                  /\ i = Len(runs) =>
                        /\ pc \in {"members", "fetch", "tracks", "migrate", "exit"}
                        /\ pc \in {"members", "fetch", "tracks"}
                              => spotify_playlist_id = r.dest
            /\ (r.failedAt = "resolve" /\ r.dest # 0) =>
                  (r.created /\ r.coverFailed)

\* the upload failed for a created playlist, whose run was abandoned, and
\* then for the same playlist found by the next run, which inserted a track
C7_Witness ==
    /\ Len(runs) = 2
    /\ runs[1].coverFailed /\ runs[1].created
    /\ runs[1].outcome = "failed"
    /\ runs[2].coverFailed /\ ~runs[2].created
    /\ runs[2].dest = runs[1].dest
    /\ runs[2].outcome = "done"
    /\ Adds(runs[2]) # <<>>

---------------------------------------------------------------------------
(* Specification of the migration of one long playlist, with the batch     *)
(* loop of lines 239-245 taken one request at a time                       *)

\* lengths of the source playlist P2: no batch, one, two and three
FetchCounts == {0, 2, BATCH_CAP + 1, 2 * BATCH_CAP + 1}
FetchLimits == {0, BATCH_CAP + 500}

\* track details for the identifiers 1..n: the records of Catalog in turn
LongCatalog(n) == [i \in 1..n |-> Catalog[((i - 1) % Len(Catalog)) + 1]]

\* the destination playlist of P2 exists and is listed
NamedLong == [id |-> 1, name |-> playlist_prefix \o <<"2">>, cover |-> "old"]

InitFetch ==
    /\ InitEnv({MaxNowYear}, {0})
    /\ IdleCalc
    /\ pc = "init"
    /\ exitCode = -1
    /\ \E limit \in FetchLimits : netease_playlists = <<[id |-> P2, limit |-> limit]>>
    /\ cur = 0
    /\ playlist_info = NO_INFO
    /\ spotify_playlist_id = 0
    /\ existing_tracks = {}
    /\ descriptors = <<>>
    /\ pos = 0
    /\ userPlaylists = <<NamedLong>>
    /\ nextId = 3
    /\ \E n \in FetchCounts :
          /\ trackIdsOf = [p \in {P1, P2} |-> IF p = P2 THEN [i \in 1..n |-> i] ELSE <<>>]
          /\ \E items \in {<<>>, <<"d2", "d1">>} :
                /\ n > 2 => items # <<>>
                /\ playlistTracks = <<items, <<>> >>
    /\ \E f \in SearchTables(NEXT_YEAR, tz) :
          /\ f[RequestFor(Descriptor(Catalog[1], NEXT_YEAR, tz)).q] = "d1"
          /\ f[RequestFor(Descriptor(Catalog[3], NEXT_YEAR, tz)).q] # "d1"
          /\ searchResults = f
    /\ runs = <<>>

\* lines 231-241: the method is entered, the limit applied, the loop set up
StartFetch ==
    /\ pc = "fetch"
    /\ calc' = [op |-> "fetch", run |-> Len(runs), status |-> "loop",
                failed |-> FALSE, failedAt |-> 0, result |-> <<>>,
                b |-> BatchStart(ApplyLimit(playlist_info.trackIds,
                                            netease_playlists[cur].limit))]
    /\ pc' = "batches"
    /\ UNCHANGED <<exitCode, netease_playlists, cur, playlist_info,
                   spotify_playlist_id, existing_tracks, descriptors, pos,
                   userPlaylists, playlistTracks, nextId, searchResults,
                   trackIdsOf, runs, envVars>>

\* lines 242-245: one iteration whose request succeeds
FetchIterate ==
    /\ pc = "batches"
    /\ BatchMore(calc.b)
    /\ calc' = [calc EXCEPT !.b = BatchStep(@)]
    /\ UNCHANGED <<mainVars, envVars>>

\* FetchError with the except clause of line 252 only logging: the method
\* goes on to return what it has
FetchErrorSwallowed(b) == [raised |-> FALSE, songs |-> b.songs]

\* lines 252-254: the error of a request is logged and raised again, the
\* songs fetched so far are dropped with the frame
FetchError(b) == [raised |-> TRUE, songs |-> <<>>]

\* the descriptors of the songs, lines 246-249, in the order given
DescriptorsOf(songs, details, nextYear, zone) ==
    [i \in 1..Len(songs) |-> Descriptor(details[songs[i]], nextYear, zone)]

\* lines 243-244, 252-254, 151-152: the request raises; the error reaches
\* _migrate_single_playlist, which logs it and returns
FetchRaise ==
    /\ pc = "batches"
    /\ BatchMore(calc.b)
    /\ LET e == FetchError(calc.b)
           asked == BatchStep(calc.b).requests
       IN  /\ calc' = [calc EXCEPT !.b.requests = asked,
                                   !.failed = TRUE,
                                   !.failedAt = Len(asked),
                                   !.result = ResultOrder(e.songs),
                                   !.status = IF e.raised THEN "raised"
                                              ELSE "returned"]
           /\ IF e.raised
              THEN /\ runs' = SetLast(runs, Failed(Last(runs), "fetch"))
                   /\ pc' = PcAfterFailure
                   /\ UNCHANGED <<descriptors, pos>>
              ELSE LET ds == ResultOrder(DescriptorsOf(e.songs,
                                         LongCatalog(Len(calc.b.track_ids)),
                                         NEXT_YEAR, tz))
                   IN  /\ descriptors' = ds
                       /\ pos' = 0
                       /\ runs' = SetLast(runs,
                             [Last(runs) EXCEPT !.descs = ds,
                                                !.reachedLoop = TRUE])
                       /\ pc' = "tracks"
    /\ UNCHANGED <<exitCode, netease_playlists, cur, playlist_info,
                   spotify_playlist_id, existing_tracks, userPlaylists,
                   playlistTracks, nextId, searchResults, trackIdsOf,
                   envVars>>

\* lines 242, 246-251, 135-137: the loop ends, the reversed descriptors are
\* returned to _migrate_single_playlist
FetchReturn ==
    /\ pc = "batches"
    /\ ~BatchMore(calc.b)
    /\ LET ds == ResultOrder(DescriptorsOf(calc.b.songs,
                                           LongCatalog(Len(calc.b.track_ids)),
                                           NEXT_YEAR, tz))
       IN  /\ calc' = [calc EXCEPT !.status = "returned",
                                   !.result = ResultOrder(calc.b.songs)]
           /\ descriptors' = ds
           /\ pos' = 0
           /\ runs' = SetLast(runs,
                 [Last(runs) EXCEPT !.descs = ds, !.reachedLoop = TRUE])
           /\ pc' = "tracks"
    /\ UNCHANGED <<exitCode, netease_playlists, cur, playlist_info,
                   spotify_playlist_id, existing_tracks, userPlaylists,
                   playlistTracks, nextId, searchResults, trackIdsOf,
                   envVars>>

NextFetch ==
    \/ Authenticate
    \/ MigrateNext
    \/ MigrateReturn
    \/ GetPlaylistInfo
    \/ GetOrCreatePlaylist
    \/ FetchMembership
    \/ StartFetch
    \/ FetchIterate
    \/ FetchRaise
    \/ FetchReturn
    \/ ProcessTrack
    \/ FinishPlaylist

SpecFetch == InitFetch /\ [][NextFetch]_vars

---------------------------------------------------------------------------
(* Properties of a failed source fetch *)

\* C11: when a GetTrackDetail request fails, no further batch request is
\* made for that playlist, no partial result is used, and the run makes no
\* search and no playlist_add_items call; the error reaches
\* _migrate_single_playlist, which logs it and returns.  All batches are
\* complete before the first track is matched or inserted.
C11_FetchFailureSkipsPlaylist ==
    calc.op = "fetch" =>
        LET r == runs[calc.run]
            b == calc.b
            k == Len(b.requests)
            n == Len(b.track_ids)
        IN  /\ calc.failed =>
                  /\ calc.status = "raised"
                  /\ k = calc.failedAt
                  /\ k \in 1..CeilDiv(n, BATCH_CAP)
                  /\ Flatten(b.requests)
                        = SubSeq(b.track_ids, 1, Min2(k * BATCH_CAP, n))
                  /\ b.songs = Flatten(SubSeq(b.requests, 1, k - 1))
                  /\ calc.result = <<>>
                  /\ descriptors = <<>>
                  /\ r.descs = <<>>
                  /\ ~r.reachedLoop
                  /\ r.requests = <<>>
                  /\ r.addCalls = <<>>
                  /\ playlistTracks[r.dest] = r.before
                  /\ r.outcome = "failed"
                  /\ r.failedAt = "fetch"
                  /\ pc \in {"migrate", "exit"}
            /\ (r.requests # <<>> \/ r.addCalls # <<>> \/ pc = "tracks") =>
                  /\ calc.status = "returned"
                  /\ k = CeilDiv(n, BATCH_CAP)
                  /\ b.songs = b.track_ids
                  /\ Len(r.descs) = n

\* the second of three requests failed after the first had brought 1000
\* songs, and the playlist was left untouched
C11_Witness ==
    /\ calc.op = "fetch"
    /\ calc.failed
    /\ Len(calc.b.track_ids) = 2 * BATCH_CAP + 1
    /\ Len(calc.b.requests) = 2
    /\ Len(calc.b.songs) = BATCH_CAP
    /\ runs[calc.run].outcome = "failed"
    /\ runs[calc.run].dest # 0
    /\ pc = "exit"
    /\ exitCode = 0

=============================================================================
